---------------------------- MODULE Spec2Model ----------------------------
(***************************************************************************)
(* Store-directory scraper: the name normalizer (clean_store_name), the    *)
(* candidate extraction of one page (extract_store_links), the per-source  *)
(* deduplication and grouped output of westfield_scraper.main, and the     *)
(* cross-source merge of export_westfield_to_excel.main.                   *)
(*                                                                         *)
(* A Python str is a sequence of characters; a character is a one-element  *)
(* TLA+ string.  Characters outside ASCII are written by name              *)
(* ("<a-umlaut>", "<en-dash>", ...).                                       *)
(***************************************************************************)
EXTENDS Integers, Sequences, FiniteSets, TLC

VARIABLES
    pc,              \* position of the modelled program
    script,          \* the script that runs: "westfield_scraper" or "webscraper_jan"
    \* the normalizer applied to a raw text, and again to its own output
    raw,             \* the raw text handed to clean_store_name
    cleaned,         \* clean_store_name(raw)
    recleaned,       \* clean_store_name(cleaned)
    \* extract_store_links on one rendered page, then main's per-URL dedup
    page,            \* what the page provider returns for the two queries
    names,           \* extract_store_links: names
    seen,            \* extract_store_links: seen
    fallback_ran,    \* whether the body of "if not names:" was entered
    per_unique,      \* main: per_unique after the stop_headers filter
    \* westfield_scraper.main followed by export_westfield_to_excel.main
    URLS,            \* the configured URL list
    sources,         \* history: url, site_title, names and per_unique per URL
    files,           \* the per-URL JSON files in the working directory, by name
    merged_display,  \* main: merged_display
    all_names,       \* main: all_names
    merged_file,     \* westfield_stores.json
    merged_rows,     \* export: merged_rows
    grouped,         \* export: grouped, the lines of the 'grouped' sheet
    dedup,           \* export: dedup, the rows of the 'unique' sheet
    sheets           \* export: the titles of the sheets created, in order

normVars == <<raw, cleaned, recleaned>>

pageVars == <<page, names, seen, fallback_ran, per_unique>>

mainVars == <<URLS, sources, files, merged_display, all_names, merged_file,
              merged_rows, grouped, dedup, sheets>>

vars == <<pc, script, normVars, pageVars, mainVars>>

(***************************************************************************)
(* Characters, and the character classes of Python's re on str patterns.   *)
(***************************************************************************)
UpperCase ==
    <<"A", "B", "C", "D", "E", "F", "G", "H", "I", "J", "K", "L", "M", "N",
      "O", "P", "Q", "R", "S", "T", "U", "V", "W", "X", "Y", "Z",
      "<A-ring>", "<A-umlaut>", "<O-umlaut>">>

LowerCase ==
    <<"a", "b", "c", "d", "e", "f", "g", "h", "i", "j", "k", "l", "m", "n",
      "o", "p", "q", "r", "s", "t", "u", "v", "w", "x", "y", "z",
      "<a-ring>", "<a-umlaut>", "<o-umlaut>">>

Range(f) == {f[i] : i \in DOMAIN f}

\* \s
Whitespace == {" ", "\t", "\n"}

\* \d
Digits == {"0", "1", "2", "3", "4", "5", "6", "7", "8", "9"}

\* \w
WordChars == Range(UpperCase) \cup Range(LowerCase) \cup Digits \cup {"_"}

\* [-<en-dash><em-dash>]
Dashes == {"-", "<en-dash>", "<em-dash>"}

SetMin(S) == CHOOSE x \in S : \A y \in S : x <= y

SetMax(S) == CHOOSE x \in S : \A y \in S : x >= y

\* str.lower() on one character; also the folding of re.IGNORECASE
ToLower ==
    [c \in Range(UpperCase) |->
        LowerCase[CHOOSE i \in DOMAIN UpperCase : UpperCase[i] = c]]

lower_char(c) == IF c \in DOMAIN ToLower THEN ToLower[c] ELSE c

\* str.lower()
lower(s) == [i \in 1..Len(s) |-> lower_char(s[i])]

\* str.strip()
RECURSIVE rstrip(_)
rstrip(s) ==
    IF s # <<>> /\ s[Len(s)] \in Whitespace
    THEN rstrip(SubSeq(s, 1, Len(s) - 1)) ELSE s

RECURSIVE lstrip(_)
lstrip(s) == IF s # <<>> /\ s[1] \in Whitespace THEN lstrip(Tail(s)) ELSE s

strip(s) == rstrip(lstrip(s))

\* needle in haystack
contains(haystack, needle) ==
    \E i \in 1..(Len(haystack) - Len(needle) + 1) :
        SubSeq(haystack, i, i + Len(needle) - 1) = needle

(***************************************************************************)
(* Regular-expression matching.  A match is described by the index just    *)
(* past its last character; 0 stands for "no match at this position".      *)
(***************************************************************************)
IsWordAt(s, i) == i \in 1..Len(s) /\ s[i] \in WordChars

\* \b between s[i-1] and s[i]
WordBoundary(s, i) == IsWordAt(s, i - 1) # IsWordAt(s, i)

\* greedy run of characters of class C starting at i: the index after the run
RECURSIVE SpanEnd(_, _, _)
SpanEnd(s, i, C) ==
    IF i > Len(s) \/ s[i] \notin C THEN i ELSE SpanEnd(s, i + 1, C)

\* the first index from i on that holds a character of class C; Len(s) + 1
\* when there is none
RECURSIVE FindFirst(_, _, _)
FindFirst(s, i, C) ==
    IF i > Len(s) \/ s[i] \in C THEN i ELSE FindFirst(s, i + 1, C)

\* the literal w, case-insensitively, at index i
LitAtCI(s, i, w) ==
    /\ i >= 1
    /\ i + Len(w) - 1 <= Len(s)
    /\ \A k \in 1..Len(w) : lower_char(s[i + k - 1]) = lower_char(w[k])

\* the literal w, case-sensitively, at index i
LitAt(s, i, w) ==
    /\ i >= 1
    /\ i + Len(w) - 1 <= Len(s)
    /\ \A k \in 1..Len(w) : s[i + k - 1] = w[k]

\* ".*$" from index j: "." stops at a newline, "$" matches at the end of the
\* string or just before a newline that ends it
DotStarEnd(s, j) ==
    LET n == FindFirst(s, j, {"\n"})
    IN  IF n >= Len(s) THEN n ELSE 0

\* "\b(?:w1|w2|...)\b" at index i, case-insensitively, the alternatives tried
\* in order
WordAltEnd(s, i, alts) ==
    IF ~WordBoundary(s, i) THEN 0
    ELSE LET ok == {k \in 1..Len(alts) :
                       /\ LitAtCI(s, i, alts[k])
                       /\ WordBoundary(s, i + Len(alts[k]))}
         IN  IF ok = {} THEN 0 ELSE i + Len(alts[SetMin(ok)])

\* re.sub: the non-overlapping matches, leftmost first, replaced by repl;
\* ends[i] is the match that starts at i (none of the patterns below matches
\* the empty string)
RECURSIVE ReSubFrom(_, _, _, _)
ReSubFrom(ends, repl, s, i) ==
    IF i > Len(s) THEN <<>>
    ELSE LET e == ends[i]
         IN  IF e > 0 THEN repl \o ReSubFrom(ends, repl, s, e)
             ELSE <<s[i]>> \o ReSubFrom(ends, repl, s, i + 1)

re_sub(ends, repl, s) == ReSubFrom(ends, repl, s, 1)

(***************************************************************************)
(* clean_store_name, statement by statement.                               *)
(***************************************************************************)
\* r"\s*\([^)]*\)"
ParenEnd(s, i) ==
    LET j == SpanEnd(s, i, Whitespace)
        k == FindFirst(s, j + 1, {")"})
    IN  IF j <= Len(s) /\ s[j] = "(" /\ k <= Len(s) THEN k + 1 ELSE 0

\* remove_parens with the substitution left out
remove_parens_skipped(s) == s

remove_parens(s) == re_sub([i \in 1..Len(s) |-> ParenEnd(s, i)], <<>>, s)

\* r"\b[Pp]lan\s*\d+\b"
FloorEnd(s, i) ==
    LET j == SpanEnd(s, i + 4, Whitespace)
        k == SpanEnd(s, j, Digits)
    IN  IF /\ WordBoundary(s, i)
           /\ s[i] \in {"P", "p"}
           /\ LitAt(s, i + 1, <<"l", "a", "n">>)
           /\ k > j
           /\ WordBoundary(s, k)
        THEN k ELSE 0

remove_floor(s) == re_sub([i \in 1..Len(s) |-> FloorEnd(s, i)], <<>>, s)

\* r"(?i)\b(stäng[ta]?|stänger|stängt|öppet|stängd)\b"
StatusWords ==
    << <<"s", "t", "<a-umlaut>", "n", "g", "t">>,
       <<"s", "t", "<a-umlaut>", "n", "g", "a">>,
       <<"s", "t", "<a-umlaut>", "n", "g">>,
       <<"s", "t", "<a-umlaut>", "n", "g", "e", "r">>,
       <<"s", "t", "<a-umlaut>", "n", "g", "t">>,
       <<"<o-umlaut>", "p", "p", "e", "t">>,
       <<"s", "t", "<a-umlaut>", "n", "g", "d">> >>

remove_status(s) ==
    re_sub([i \in 1..Len(s) |-> WordAltEnd(s, i, StatusWords)], <<>>, s)

\* r"[-–—].*$"
DashEnd(s, i) == IF s[i] \in Dashes THEN DotStarEnd(s, i + 1) ELSE 0

remove_after_dash(s) == re_sub([i \in 1..Len(s) |-> DashEnd(s, i)], <<>>, s)

\* r"(?i)^(butik|butiker|shop)[:\s-]+"
GenericLabels ==
    << <<"b", "u", "t", "i", "k">>,
       <<"b", "u", "t", "i", "k", "e", "r">>,
       <<"s", "h", "o", "p">> >>

LabelSeparators == {":", "-"} \cup Whitespace

LabelEnd(s, i) ==
    LET ok == {k \in 1..Len(GenericLabels) :
                   /\ i = 1     \* ^
                   /\ LitAtCI(s, 1, GenericLabels[k])
                   /\ SpanEnd(s, 1 + Len(GenericLabels[k]), LabelSeparators)
                          > 1 + Len(GenericLabels[k])}
    IN  IF ok = {} THEN 0
        ELSE SpanEnd(s, 1 + Len(GenericLabels[SetMin(ok)]), LabelSeparators)

remove_leading_generic(s) ==
    re_sub([i \in 1..Len(s) |-> LabelEnd(s, i)], <<>>, s)

\* re.sub(r"\s+", " ", s) and .strip()
WhitespaceEnd(s, i) == IF s[i] \in Whitespace THEN SpanEnd(s, i, Whitespace) ELSE 0

collapse_whitespace(s) ==
    strip(re_sub([i \in 1..Len(s) |-> WhitespaceEnd(s, i)], <<" ">>, s))

\* re.sub(r"(?i)\bplan\b", "", s).strip()
remove_lone_plan(s) ==
    strip(re_sub([i \in 1..Len(s) |->
                      WordAltEnd(s, i, << <<"p", "l", "a", "n">> >>)], <<>>, s))

\* r"\s*\|.*$"
PipeEnd(s, i) ==
    LET j == SpanEnd(s, i, Whitespace)
    IN  IF j <= Len(s) /\ s[j] = "|" THEN DotStarEnd(s, j + 1) ELSE 0

remove_pipe(s) == re_sub([i \in 1..Len(s) |-> PipeEnd(s, i)], <<>>, s)

\* r"(?i)\b(?:gatuplan|övre|nedre)\b.*$"
LocationWords ==
    << <<"g", "a", "t", "u", "p", "l", "a", "n">>,
       <<"<o-umlaut>", "v", "r", "e">>,
       <<"n", "e", "d", "r", "e">> >>

\* r"(?i)\b(?:hamngatan|postgatan|...|lilla klädpressaregatan)\b.*$"
StreetNames ==
    << <<"h", "a", "m", "n", "g", "a", "t", "a", "n">>,
       <<"p", "o", "s", "t", "g", "a", "t", "a", "n">>,
       <<"k", "<o-umlaut>", "p", "m", "a", "n", "s", "g", "a", "t", "a", "n">>,
       <<"s", "p", "a", "n", "n", "m", "<a-ring>", "l", "s", "g", "a", "t", "a", "n">>,
       <<"n", "o", "r", "d", "s", "t", "a", "d", "s", "t", "o", "r", "g", "e", "t">>,
       <<"l", "i", "l", "l", "a", " ", "k", "l", "<a-umlaut>", "d", "p", "r",
         "e", "s", "s", "a", "r", "e", "g", "a", "t", "a", "n">> >>

WordsToEndEnd(s, i, alts) ==
    LET e == WordAltEnd(s, i, alts)
    IN  IF e > 0 THEN DotStarEnd(s, e) ELSE 0

remove_location_words(s) ==
    re_sub([i \in 1..Len(s) |-> WordsToEndEnd(s, i, LocationWords)], <<>>, s)

remove_street_names(s) ==
    re_sub([i \in 1..Len(s) |-> WordsToEndEnd(s, i, StreetNames)], <<>>, s)

\* r"[\s,/-]*\d+\s*$"
NumberSeparators == {",", "/", "-"} \cup Whitespace

TrailingNumberEnd(s, i) ==
    LET j == SpanEnd(s, i, NumberSeparators)
        k == SpanEnd(s, j, Digits)
        l == SpanEnd(s, k, Whitespace)
    IN  IF k > j /\ l = Len(s) + 1 THEN l ELSE 0

remove_trailing_numbers(s) ==
    re_sub([i \in 1..Len(s) |-> TrailingNumberEnd(s, i)], <<>>, s)

\* m = re.match(r"^(?P<x>.+?)\s+\1$", s, flags=re.IGNORECASE);
\* if m: s = m.group("x").strip()
collapse_duplicated_halves(s) ==
    LET n  == Len(s)
        ks == {k \in 1..n :
                 /\ \A p \in 1..k : s[p] # "\n"
                 /\ \E m \in 1..n :
                      /\ \A p \in (k + 1)..(k + m) : p <= n /\ s[p] \in Whitespace
                      /\ LitAtCI(s, k + m + 1, SubSeq(s, 1, k))
                      /\ \/ 2 * k + m = n
                         \/ 2 * k + m + 1 = n /\ s[n] = "\n"}
    IN  IF ks = {} THEN s ELSE strip(SubSeq(s, 1, SetMin(ks)))

\* westfield_scraper.clean_store_name
clean_store_name(text) ==
    IF text = <<>> THEN <<>>
    ELSE LET s1  == strip(text)
             s2  == remove_parens(s1)
             s3  == remove_floor(s2)
             s4  == remove_status(s3)
             s5  == remove_after_dash(s4)
             s6  == remove_leading_generic(s5)
             s7  == collapse_whitespace(s6)
             s8  == remove_lone_plan(s7)
             s9  == remove_pipe(s8)
             s10 == remove_location_words(s9)
             s11 == remove_street_names(s10)
             s12 == remove_trailing_numbers(s11)
         IN  collapse_duplicated_halves(s12)

\* webscraper_jan.clean_store_name
jan_clean_store_name(text) ==
    IF text = <<>> THEN <<>>
    ELSE LET s1 == strip(text)
             s2 == remove_parens(s1)
             s3 == remove_floor(s2)
             s4 == remove_status(s3)
             s5 == remove_after_dash(s4)
             s6 == remove_leading_generic(s5)
             s7 == collapse_whitespace(s6)
             s8 == remove_lone_plan(s7)
         IN  collapse_duplicated_halves(s8)

\* the clean_store_name of the running script
clean_name(sc, text) ==
    IF sc = "westfield_scraper" THEN clean_store_name(text)
    ELSE jan_clean_store_name(text)

(***************************************************************************)
(* extract_store_links (westfield_scraper) and                             *)
(* extract_store_names_from_page (webscraper_jan): the same statements,    *)
(* each with the clean_store_name of its own script.                       *)
(*                                                                         *)
(* A page element is [text, href, raises]: what inner_text() and           *)
(* get_attribute("href") return (NoneValue for None), and which of the two *)
(* calls raises, if any.                                                   *)
(***************************************************************************)
NoneValue == <<"None">>

\* (v or "")
or_empty(v) == IF v = NoneValue THEN <<>> ELSE v

\* heuristics = ["/butik", "/butiker", "/store", "/shop", "/shops"]
Heuristics ==
    << <<"/", "b", "u", "t", "i", "k">>,
       <<"/", "b", "u", "t", "i", "k", "e", "r">>,
       <<"/", "s", "t", "o", "r", "e">>,
       <<"/", "s", "h", "o", "p">>,
       <<"/", "s", "h", "o", "p", "s">> >>

\* ["butik", "store", "shop"]
TextKeywords ==
    << <<"b", "u", "t", "i", "k">>,
       <<"s", "t", "o", "r", "e">>,
       <<"s", "h", "o", "p">> >>

\* any(k in s for k in keys)
any_in(keys, s) == \E k \in 1..Len(keys) : contains(s, keys[k])

\* read_anchor with get_attribute("href") outside the try
read_anchor_href_unguarded(a) ==
    IF a.raises = "inner_text"
    THEN [status |-> "continue", text |-> <<>>, href |-> <<>>]
    ELSE IF a.raises = "get_attribute"
    THEN [status |-> "raise", text |-> <<>>, href |-> <<>>]
    ELSE [status |-> "ok", text |-> strip(or_empty(a.text)),
          href |-> or_empty(a.href)]

\* try: text = (a.inner_text() or "").strip(); href = a.get_attribute("href") or ""
\* except Exception: continue
read_anchor(a) ==
    IF a.raises \in {"inner_text", "get_attribute"}
    THEN [status |-> "continue", text |-> <<>>, href |-> <<>>]
    ELSE [status |-> "ok", text |-> strip(or_empty(a.text)),
          href |-> or_empty(a.href)]

\* try: text = (el.inner_text() or "").strip()
\* except Exception: continue
read_candidate(el) ==
    IF el.raises = "inner_text"
    THEN [status |-> "continue", text |-> <<>>]
    ELSE [status |-> "ok", text |-> strip(or_empty(el.text))]

\* not (not text or len(text) < 2), and a keyword in the href or in the text
is_store_like(text, href) ==
    /\ text # <<>>
    /\ Len(text) >= 2
    /\ \/ any_in(Heuristics, lower(href))
       \/ any_in(TextKeywords, lower(text))

\* if cleaned and cleaned not in seen: names.append(cleaned); seen.add(cleaned)
add_name(st, name) ==
    IF name # <<>> /\ name \notin st.seen
    THEN [st EXCEPT !.names = Append(@, name), !.seen = @ \cup {name}]
    ELSE st

\* one iteration of "for a in anchors"; an exception that no except clause
\* catches ends the function (st.raised)
anchor_step(sc, st, a) ==
    LET r == read_anchor(a)
    IN  IF r.status = "raise" THEN [st EXCEPT !.raised = TRUE]
        ELSE IF r.status = "continue" THEN st
        ELSE IF is_store_like(r.text, r.href)
             THEN add_name(st, clean_name(sc, r.text))
             ELSE st

\* one iteration of "for el in candidates"
candidate_step(sc, st, el) ==
    LET r == read_candidate(el)
    IN  IF r.status = "raise" THEN [st EXCEPT !.raised = TRUE]
        ELSE IF r.status = "continue" THEN st
        ELSE add_name(st, clean_name(sc, r.text))

\* for a in anchors: ...
RECURSIVE anchors_loop(_, _, _, _)
anchors_loop(sc, st, anchors, i) ==
    IF i > Len(anchors) \/ st.raised THEN st
    ELSE anchors_loop(sc, anchor_step(sc, st, anchors[i]), anchors, i + 1)

\* for el in candidates: ...
RECURSIVE candidates_loop(_, _, _, _)
candidates_loop(sc, st, candidates, i) ==
    IF i > Len(candidates) \/ st.raised THEN st
    ELSE candidates_loop(sc, candidate_step(sc, st, candidates[i]),
                         candidates, i + 1)

\* names = []; seen = set(); the loop over the anchors
primary_pass(sc, pg) ==
    anchors_loop(sc, [names |-> <<>>, seen |-> {}, raised |-> FALSE],
                 pg.anchors, 1)

\* needs_fallback with the test dropped
needs_fallback_always(ns) == TRUE

\* if not names:
needs_fallback(ns) == ns = <<>>

\* the body of "if not names:"
fallback_scan(sc, st, pg) == candidates_loop(sc, st, pg.candidates, 1)

\* the whole function: [names, seen, raised]
extract_store_links(sc, pg) ==
    LET st == primary_pass(sc, pg)
    IN  IF ~st.raised /\ needs_fallback(st.names)
        THEN fallback_scan(sc, st, pg) ELSE st

(***************************************************************************)
(* westfield_scraper.main: the per-URL deduplication.                      *)
(***************************************************************************)
\* per_seen = set(); per_unique = []; for n in names: if n not in per_seen: ...
RECURSIVE order_preserving_unique(_, _)
order_preserving_unique(ns, per_seen) ==
    IF ns = <<>> THEN <<>>
    ELSE IF Head(ns) \notin per_seen
         THEN <<Head(ns)>> \o order_preserving_unique(Tail(ns), per_seen \cup {Head(ns)})
         ELSE order_preserving_unique(Tail(ns), per_seen)

\* stop_headers = {"butik", "butiker"}
stop_headers ==
    { <<"b", "u", "t", "i", "k">>, <<"b", "u", "t", "i", "k", "e", "r">> }

\* [x for x in xs if x and x.strip().lower() not in stop_headers]
RECURSIVE drop_headers(_)
drop_headers(xs) ==
    IF xs = <<>> THEN <<>>
    ELSE IF Head(xs) # <<>> /\ lower(strip(Head(xs))) \notin stop_headers
         THEN <<Head(xs)>> \o drop_headers(Tail(xs))
         ELSE drop_headers(Tail(xs))

\* per_unique of one URL, from the names extract_store_links returned
per_url_unique(ns) == drop_headers(order_preserving_unique(ns, {}))

(***************************************************************************)
(* The normalizer on its own: a raw text is cleaned, and the result is     *)
(* cleaned once more.                                                      *)
(***************************************************************************)
MaxTokens == 3

\* a name word, the generic labels, the floor word, a street name, a digit,
\* a dash, a pipe and a space
Tokens ==
    { <<"Z", "a", "r", "a">>,
      <<"B", "u", "t", "i", "k">>,
      <<"S", "h", "o", "p">>,
      <<"p", "l", "a", "n">>,
      <<"P", "o", "s", "t", "g", "a", "t", "a", "n">>,
      <<"5">>, <<"-">>, <<"|">>, <<" ">> }

RECURSIVE TokenStrings(_)
TokenStrings(n) ==
    IF n = 0 THEN {<<>>}
    ELSE LET shorter == TokenStrings(n - 1)
         IN  shorter \cup {s \o t : s \in shorter, t \in Tokens}

StoreClosed ==
    <<"S", "t", "o", "r", "e", " ", "(", "C", "l", "o", "s", "e", "d", ")">>

NameDashStangt ==
    <<"N", "a", "m", "e", " ", "-", " ", "s", "t", "<a-umlaut>", "n", "g", "t">>

ButikShoeWorld ==
    <<"B", "u", "t", "i", "k", ":", " ", "S", "h", "o", "e", " ", "W", "o", "r", "l", "d">>

ShopShop == <<"S", "h", "o", "p", " ", "S", "h", "o", "p">>

ZaraZara == <<"Z", "a", "r", "a", " ", "z", "a", "r", "a">>

\* 'Zara (a(b)c) (d' and 'Zara ((plan 5) Shop'
NestedParens ==
    <<"Z", "a", "r", "a", " ", "(", "a", "(", "b", ")", "c", ")", " ", "(", "d">>

ParensAroundFloor ==
    <<"Z", "a", "r", "a", " ", "(", "(", "p", "l", "a", "n", " ", "5", ")", " ",
      "S", "h", "o", "p">>

ExampleTexts ==
    {StoreClosed, NameDashStangt, ButikShoeWorld, ShopShop, ZaraZara,
     NestedParens, ParensAroundFloor}

RawInputs == TokenStrings(MaxTokens) \cup ExampleTexts

IdleNorm == raw = <<>> /\ cleaned = <<>> /\ recleaned = <<>>

IdlePage ==
    /\ page = [anchors |-> <<>>, candidates |-> <<>>]
    /\ names = <<>>
    /\ seen = {}
    /\ fallback_ran = FALSE
    /\ per_unique = <<>>

IdleMain ==
    /\ URLS = <<>>
    /\ sources = <<>>
    /\ files = <<>>
    /\ merged_display = <<>>
    /\ all_names = <<>>
    /\ merged_file = [exists |-> FALSE, lines |-> <<>>]
    /\ merged_rows = <<>>
    /\ grouped = <<>>
    /\ dedup = <<>>
    /\ sheets = <<>>

InitClean ==
    /\ pc = "raw"
    /\ script \in {"westfield_scraper", "webscraper_jan"}
    /\ raw \in RawInputs
    /\ cleaned = <<>>
    /\ recleaned = <<>>
    /\ IdlePage
    /\ IdleMain

\* cleaned = clean_store_name(text) in westfield_scraper
CleanWestfield ==
    /\ pc = "raw"
    /\ script = "westfield_scraper"
    /\ cleaned' = clean_store_name(raw)
    /\ pc' = "cleaned"
    /\ UNCHANGED <<script, raw, recleaned, pageVars, mainVars>>

\* cleaned = clean_store_name(text) in webscraper_jan
CleanJan ==
    /\ pc = "raw"
    /\ script = "webscraper_jan"
    /\ cleaned' = jan_clean_store_name(raw)
    /\ pc' = "cleaned"
    /\ UNCHANGED <<script, raw, recleaned, pageVars, mainVars>>

\* the normalizer run on its own output
RecleanWestfield ==
    /\ pc = "cleaned"
    /\ script = "westfield_scraper"
    /\ recleaned' = clean_store_name(cleaned)
    /\ pc' = "recleaned"
    /\ UNCHANGED <<script, raw, cleaned, pageVars, mainVars>>

RecleanJan ==
    /\ pc = "cleaned"
    /\ script = "webscraper_jan"
    /\ recleaned' = jan_clean_store_name(cleaned)
    /\ pc' = "recleaned"
    /\ UNCHANGED <<script, raw, cleaned, pageVars, mainVars>>

NextClean == CleanWestfield \/ CleanJan \/ RecleanWestfield \/ RecleanJan

SpecClean == InitClean /\ [][NextClean]_vars

(***************************************************************************)
(* One rendered page through extract_store_links and the per-URL           *)
(* deduplication of main.                                                  *)
(***************************************************************************)
MaxAnchors == 2

MaxCandidates == 1

Zara == <<"Z", "a", "r", "a">>

HrefButikZara == <<"/", "b", "u", "t", "i", "k", "/", "z", "a", "r", "a">>

\* the anchors a page may hold
AnchorSamples ==
    { [text |-> Zara, href |-> HrefButikZara, raises |-> "none"],
      [text |-> <<"z", "a", "r", "a">>, href |-> HrefButikZara, raises |-> "none"],
      \* a section heading
      [text |-> <<"B", "u", "t", "i", "k">>, href |-> NoneValue, raises |-> "none"],
      \* 'Shop -x': store-like, and cleaned to the empty string
      [text |-> <<"S", "h", "o", "p", " ", "-", "x">>, href |-> NoneValue,
       raises |-> "none"],
      \* 'Zara Store Postgatan 5': a street name after the store name
      [text |-> <<"Z", "a", "r", "a", " ", "S", "t", "o", "r", "e", " ", "P", "o",
                  "s", "t", "g", "a", "t", "a", "n", " ", "5">>,
       href |-> <<>>, raises |-> "none"],
      \* 'Ica plan Shop': the floor word between two words
      [text |-> <<"I", "c", "a", " ", "p", "l", "a", "n", " ", "S", "h", "o", "p">>,
       href |-> <<>>, raises |-> "none"],
      \* not store-like
      [text |-> <<"A", "b", "o", "u", "t">>,
       href |-> <<"/", "a", "b", "o", "u", "t", "-", "u", "s">>, raises |-> "none"],
      \* elements the page layer fails on
      [text |-> <<"C", "O", "S">>, href |-> HrefButikZara, raises |-> "get_attribute"],
      [text |-> NoneValue, href |-> NoneValue, raises |-> "inner_text"] }

\* the elements with a store-like class a page may hold
CandidateSamples ==
    { [text |-> <<"N", "i", "k", "e">>, href |-> NoneValue, raises |-> "none"],
      [text |-> NoneValue, href |-> NoneValue, raises |-> "inner_text"] }

RECURSIVE SeqsUpTo(_, _)
SeqsUpTo(S, n) ==
    IF n = 0 THEN {<<>>}
    ELSE LET shorter == SeqsUpTo(S, n - 1)
         IN  shorter \cup {Append(q, x) : q \in shorter, x \in S}

Pages ==
    [anchors : SeqsUpTo(AnchorSamples, MaxAnchors),
     candidates : SeqsUpTo(CandidateSamples, MaxCandidates)]

InitExtract ==
    /\ pc = "rendered"
    /\ script \in {"westfield_scraper", "webscraper_jan"}
    /\ page \in Pages
    /\ names = <<>>
    /\ seen = {}
    /\ fallback_ran = FALSE
    /\ per_unique = <<>>
    /\ IdleNorm
    /\ IdleMain

\* the loop over the anchors
PrimaryPass ==
    /\ pc = "rendered"
    /\ LET st == primary_pass(script, page)
       IN  /\ names' = st.names
           /\ seen' = st.seen
           /\ pc' = IF st.raised THEN "raised" ELSE "primary_done"
    /\ UNCHANGED <<script, page, fallback_ran, per_unique, normVars, mainVars>>

\* "if not names:" taken: the loop over the class-selected elements
FallbackScan ==
    /\ pc = "primary_done"
    /\ needs_fallback(names)
    /\ LET st == fallback_scan(script,
                     [names |-> names, seen |-> seen, raised |-> FALSE], page)
       IN  /\ names' = st.names
           /\ seen' = st.seen
           /\ pc' = IF st.raised THEN "raised" ELSE "returned"
    /\ fallback_ran' = TRUE
    /\ UNCHANGED <<script, page, per_unique, normVars, mainVars>>

\* "if not names:" not taken: return names
ReturnNames ==
    /\ pc = "primary_done"
    /\ ~needs_fallback(names)
    /\ pc' = "returned"
    /\ UNCHANGED <<script, pageVars, normVars, mainVars>>

\* main: per_unique from the names returned
PerUrlDedup ==
    /\ pc = "returned"
    /\ script = "westfield_scraper"
    /\ per_unique' = per_url_unique(names)
    /\ pc' = "deduped"
    /\ UNCHANGED <<script, page, names, seen, fallback_ran, normVars, mainVars>>

NextExtract == PrimaryPass \/ FallbackScan \/ ReturnNames \/ PerUrlDedup

SpecExtract == InitExtract /\ [][NextExtract]_vars

(***************************************************************************)
(* westfield_scraper.main: the loop over URLS and the two kinds of output  *)
(* file.                                                                   *)
(***************************************************************************)
\* urlparse(url) of the three addresses of URLS: netloc and path
Gallerian ==
    [netloc |-> <<"w", "w", "w", ".", "g", "a", "l", "l", "e", "r", "i", "a", "n",
                  ".", "s", "e">>,
     path |-> <<"/", "b", "u", "t", "i", "k", "/">>]

Nordstan ==
    [netloc |-> <<"w", "w", "w", ".", "n", "o", "r", "d", "s", "t", "a", "n", ".",
                  "s", "e">>,
     path |-> <<"/", "s", "v", "/", "b", "u", "t", "i", "k", "e", "r", "/", "s",
                "h", "o", "p", "p", "a">>]

MallOfScandinavia ==
    [netloc |-> <<"w", "w", "w", ".", "w", "e", "s", "t", "f", "i", "e", "l", "d",
                  ".", "c", "o", "m">>,
     path |-> <<"/", "s", "v", "/", "s", "w", "e", "d", "e", "n", "/", "m", "a",
                "l", "l", "o", "f", "s", "c", "a", "n", "d", "i", "n", "a", "v",
                "i", "a", "/", "b", "u", "t", "i", "k", "e", "r">>]

KnownURLs == {Gallerian, Nordstan, MallOfScandinavia}

\* [a-z0-9]
SlugChars == {LowerCase[i] : i \in 1..26} \cup Digits

\* r"[^a-z0-9]+"
NonSlugEnd(s, i) == IF s[i] \in SlugChars THEN 0 ELSE FindFirst(s, i, SlugChars)

\* str.strip("_")
RECURSIVE rstrip_underscores(_)
rstrip_underscores(s) ==
    IF s # <<>> /\ s[Len(s)] = "_"
    THEN rstrip_underscores(SubSeq(s, 1, Len(s) - 1)) ELSE s

RECURSIVE lstrip_underscores(_)
lstrip_underscores(s) ==
    IF s # <<>> /\ s[1] = "_" THEN lstrip_underscores(Tail(s)) ELSE s

strip_underscores(s) == rstrip_underscores(lstrip_underscores(s))

\* slug_base = (parsed.netloc + parsed.path).lower()
\* slug = re.sub(r"[^a-z0-9]+", "_", slug_base).strip("_")
slugify(url) ==
    LET slug_base == lower(url.netloc \o url.path)
    IN  strip_underscores(
            re_sub([i \in 1..Len(slug_base) |-> NonSlugEnd(slug_base, i)],
                   <<"_">>, slug_base))

FilePrefix ==
    <<"w", "e", "s", "t", "f", "i", "e", "l", "d", "_", "s", "t", "o", "r", "e",
      "s", "_">>

FileSuffix == <<".", "j", "s", "o", "n">>

\* the same file name for every source
per_filename_shared(slug) == FilePrefix \o FileSuffix

\* f"westfield_stores_{slug}.json"
per_filename(slug) == FilePrefix \o slug \o FileSuffix

\* open(name, "w") and json.dump(data): the file is created or overwritten
write_file(fs, name, data) == (name :> data) @@ fs

\* page.title().strip(), parsed.netloc when the call raises or the title is
\* empty
site_title_of(url, pg) ==
    IF pg.title.raises THEN url.netloc
    ELSE LET t == strip(pg.title.value)
         IN  IF t = <<>> THEN url.netloc ELSE t

\* f"== {site_title} =="
header_line(site_title) == <<"=", "=", " ">> \o site_title \o <<" ", "=", "=">>

DecimalDigits == <<"0", "1", "2", "3", "4", "5", "6", "7", "8", "9">>

\* str(n) of a natural number
RECURSIVE str_int(_)
str_int(n) ==
    IF n < 10 THEN <<DecimalDigits[n + 1]>>
    ELSE str_int(n \div 10) \o <<DecimalDigits[(n % 10) + 1]>>

\* the line with the index counted from 0
numbered_line_from_zero(i, nm) == str_int(i - 1) \o <<".", " ">> \o nm

\* f"{i}. {nm}"
numbered_line(i, nm) == str_int(i) \o <<".", " ">> \o nm

\* for i, nm in enumerate(per_unique, start=1): f"{i}. {nm}"
numbered_lines(ns) == [i \in 1..Len(ns) |-> numbered_line(i, ns[i])]

\* the loop body after the per-URL deduplication: the per-URL file, the
\* header row, the numbered rows, all_names
record_source(st, url, site_title, ns) ==
    [files |-> write_file(st.files, per_filename(slugify(url)), ns),
     merged_display |->
         st.merged_display \o <<header_line(site_title)>> \o numbered_lines(ns),
     all_names |-> st.all_names \o ns]

(***************************************************************************)
(* export_westfield_to_excel.main.                                         *)
(***************************************************************************)
\* glob "westfield_stores_*.json" on a file name
glob_match(name) ==
    /\ Len(name) >= Len(FilePrefix) + Len(FileSuffix)
    /\ LitAt(name, 1, FilePrefix)
    /\ LitAt(name, Len(name) - Len(FileSuffix) + 1, FileSuffix)

\* the characters of the file names, by code point
CodePointOrder ==
    <<".", "0", "1", "2", "3", "4", "5", "6", "7", "8", "9", "_",
      "a", "b", "c", "d", "e", "f", "g", "h", "i", "j", "k", "l", "m", "n",
      "o", "p", "q", "r", "s", "t", "u", "v", "w", "x", "y", "z">>

code_point_rank(c) == CHOOSE i \in DOMAIN CodePointOrder : CodePointOrder[i] = c

\* a < b on str
RECURSIVE str_less(_, _)
str_less(a, b) ==
    IF a = <<>> THEN b # <<>>
    ELSE IF b = <<>> THEN FALSE
    ELSE IF a[1] = b[1] THEN str_less(Tail(a), Tail(b))
    ELSE code_point_rank(a[1]) < code_point_rank(b[1])

\* sorted(...) of a set of file names
RECURSIVE sorted(_)
sorted(S) ==
    IF S = {} THEN <<>>
    ELSE LET m == CHOOSE x \in S : \A y \in S \ {x} : str_less(x, y)
         IN  <<m>> \o sorted(S \ {m})

\* str.replace(old, new)
str_replace(s, old, new) ==
    re_sub([i \in 1..Len(s) |-> IF LitAt(s, i, old) THEN i + Len(old) ELSE 0],
           new, s)

\* fname.replace('westfield_stores_', '').replace('.json', '')
slug_of_file(fname) ==
    str_replace(str_replace(fname, FilePrefix, <<>>), FileSuffix, <<>>)

\* name[:31] with the characters a sheet title cannot hold replaced by '_'
safe_sheet_name(name) ==
    LET s == SubSeq(name, 1, IF Len(name) < 31 THEN Len(name) ELSE 31)
    IN  [i \in 1..Len(s) |->
            IF s[i] \in {"\\", "/", "?", "*", "[", "]", ":"} THEN "_" ELSE s[i]]

\* for jf in json_files: ... merged_rows.append((slug, store))
RECURSIVE read_files(_, _)
read_files(fs, json_files) ==
    IF json_files = <<>> THEN <<>>
    ELSE LET jf == Head(json_files)
             data == fs[jf]
             slug == slug_of_file(jf)
         IN  [i \in 1..Len(data) |-> <<slug, data[i]>>]
                 \o read_files(fs, Tail(json_files))

\* the sheet created for each file
file_sheets(json_files) ==
    [i \in 1..Len(json_files) |-> safe_sheet_name(slug_of_file(json_files[i]))]

\* the key without the case folding
row_key_case_sensitive(store) == strip(store)

\* key = store.strip().lower()
row_key(store) == lower(strip(store))

\* for src, store in merged_rows: if key and key not in seen: ...
RECURSIVE dedup_rows(_, _)
dedup_rows(rows, seen_keys) ==
    IF rows = <<>> THEN <<>>
    ELSE LET src == rows[1][1]
             store == rows[1][2]
             key == row_key(store)
         IN  IF key # <<>> /\ key \notin seen_keys
             THEN << <<store, src>> >> \o dedup_rows(Tail(rows), seen_keys \cup {key})
             ELSE dedup_rows(Tail(rows), seen_keys)

(***************************************************************************)
(* One run of westfield_scraper.main on a configured URL list, followed by *)
(* one run of export_westfield_to_excel.main in the same directory.        *)
(***************************************************************************)
MaxSources == 2

Readable(text, href) == [text |-> text, href |-> href, raises |-> "none"]

Titled(value) == [raises |-> FALSE, value |-> value]

\* the pages the provider may render for a URL
SamplePages ==
    { \* 'Zara', 'COS'; the title 'Gallerian' with a trailing space
      [anchors |-> <<Readable(Zara, HrefButikZara),
                     Readable(<<"C", "O", "S">>, HrefButikZara)>>,
       candidates |-> <<>>,
       title |-> Titled(<<"G", "a", "l", "l", "e", "r", "i", "a", "n", " ">>)],
      \* 'zara', 'Nike'; page.title() raises
      [anchors |-> <<Readable(<<"z", "a", "r", "a">>, HrefButikZara),
                     Readable(<<"N", "i", "k", "e">>, HrefButikZara)>>,
       candidates |-> <<>>,
       title |-> [raises |-> TRUE, value |-> <<>>]],
      \* nothing on the page, an empty title
      [anchors |-> <<>>, candidates |-> <<>>, title |-> Titled(<<>>)],
      \* no store-like anchor, 'Nike' by the fallback
      [anchors |-> <<Readable(<<"A", "b", "o", "u", "t">>,
                              <<"/", "a", "b", "o", "u", "t", "-", "u", "s">>)>>,
       candidates |-> <<Readable(<<"N", "i", "k", "e">>, NoneValue)>>,
       title |-> Titled(<<"M", "a", "l", "l">>)],
      \* only a section heading
      [anchors |-> <<Readable(<<"B", "u", "t", "i", "k">>, NoneValue)>>,
       candidates |-> <<>>,
       title |-> Titled(<<"M", "a", "l", "l">>)] }

Init ==
    /\ pc = "start"
    /\ script = "westfield_scraper"
    /\ URLS \in SeqsUpTo(KnownURLs, MaxSources)
    /\ sources = <<>>
    /\ files = <<>>
    /\ merged_display = <<>>
    /\ all_names = <<>>
    /\ merged_file = [exists |-> FALSE, lines |-> <<>>]
    /\ merged_rows = <<>>
    /\ grouped = <<>>
    /\ dedup = <<>>
    /\ sheets = <<>>
    /\ IdleNorm
    /\ IdlePage

\* one iteration of "for url in URLS"
ScrapeUrl ==
    /\ pc \in {"start", "loop"}
    /\ Len(sources) < Len(URLS)
    /\ \E pg \in SamplePages :
       \E res \in {extract_store_links(script, pg)} :
       \E ns \in {per_url_unique(res.names)} :
           LET url == URLS[Len(sources) + 1]
               site_title == site_title_of(url, pg)
           IN  /\ page' = pg
               /\ names' = res.names
               /\ seen' = res.seen
               /\ IF res.raised
                  THEN /\ pc' = "raised"
                       /\ UNCHANGED <<per_unique, sources, files, merged_display,
                                      all_names>>
                  ELSE \E st \in {record_source([files |-> files,
                                                  merged_display |-> merged_display,
                                                  all_names |-> all_names],
                                                 url, site_title, ns)} :
                       /\ pc' = "loop"
                       /\ per_unique' = ns
                       /\ sources' = Append(sources,
                              [url |-> url, title |-> site_title,
                               found |-> res.names, names |-> ns])
                       /\ files' = st.files
                       /\ merged_display' = st.merged_display
                       /\ all_names' = st.all_names
    /\ UNCHANGED <<script, fallback_ran, normVars, URLS, merged_file,
                   merged_rows, grouped, dedup, sheets>>

\* after the loop: json.dump(merged_display) to westfield_stores.json
WriteMerged ==
    /\ pc \in {"start", "loop"}
    /\ Len(sources) = Len(URLS)
    /\ merged_file' = [exists |-> TRUE, lines |-> merged_display]
    /\ pc' = "main_done"
    /\ UNCHANGED <<script, normVars, pageVars, URLS, sources, files,
                   merged_display, all_names, merged_rows, grouped, dedup, sheets>>

\* export_westfield_to_excel.main, run before or after the scraper
Export ==
    /\ pc \in {"start", "main_done"}
    /\ LET json_files == sorted({n \in DOMAIN files : glob_match(n)})
       IN  IF json_files = <<>> /\ ~merged_file.exists
           THEN /\ pc' = "export_returned"
                /\ UNCHANGED <<merged_rows, grouped, dedup, sheets>>
           ELSE LET rows == read_files(files, json_files)
                    lines == IF merged_file.exists THEN merged_file.lines ELSE <<>>
                IN  /\ merged_rows' = rows
                    /\ grouped' = lines
                    /\ dedup' = dedup_rows(rows, {})
                    /\ sheets' = file_sheets(json_files)
                                   \o (IF lines # <<>>
                                       THEN << <<"g", "r", "o", "u", "p", "e", "d">> >>
                                       ELSE <<>>)
                                   \o << <<"m", "e", "r", "g", "e", "d">>,
                                         <<"u", "n", "i", "q", "u", "e">> >>
                    /\ pc' = "exported"
    /\ UNCHANGED <<script, normVars, pageVars, URLS, sources, files,
                   merged_display, all_names, merged_file>>

Next == ScrapeUrl \/ WriteMerged \/ Export

Spec == Init /\ [][Next]_vars

(***************************************************************************)
(* C1: the normalizer is idempotent: cleaning its own output changes       *)
(* nothing, clean_store_name(clean_store_name(x)) = clean_store_name(x).   *)
(***************************************************************************)
C1_Idempotent == pc = "recleaned" => recleaned = cleaned

HasParenGroup(s) ==
    \E i \in 1..Len(s) : \E j \in (i + 1)..Len(s) : s[i] = "(" /\ s[j] = ")"

HasDash(s) == \E i \in 1..Len(s) : s[i] \in Dashes

\* s cut right after its first dash-like character
UpToFirstDash(s) ==
    LET ds == {i \in 1..Len(s) : s[i] \in Dashes}
    IN  IF ds = {} THEN s ELSE SubSeq(s, 1, SetMin(ds))

PlainNames ==
    { <<"Z", "a", "r", "a">>,
      <<"S", "h", "o", "e", " ", "W", "o", "r", "l", "d">> }

LabelForms ==
    { <<"B", "u", "t", "i", "k">>,
      <<"B", "u", "t", "i", "k", "e", "r">>,
      <<"S", "h", "o", "p">>,
      <<"s", "h", "o", "p">> }

LabelGaps == { <<" ">>, <<":">>, <<":", " ">> }

(***************************************************************************)
(* C8: noise removal.  In a cleaned name no parenthesized substring is     *)
(* left, no dash-like character is left and what follows the first dash    *)
(* has no influence on the result; a                                       *)
(* leading generic label with its separator before a plain name is         *)
(* stripped; two case-insensitively identical halves collapse to one; and  *)
(* 'Store (Closed)' gives 'Store', 'Name - stängt' gives 'Name',           *)
(* 'Butik: Shoe World' gives 'Shoe World', 'Shop Shop' gives 'Shop'.       *)
(***************************************************************************)
C8_NoiseRemoval ==
    pc = "cleaned" =>
        /\ ~HasParenGroup(cleaned)
        /\ ~HasDash(cleaned)
        /\ (\A i \in 1..Len(raw) : raw[i] # "(")
               => cleaned = clean_name(script, UpToFirstDash(raw))
        /\ \A l \in LabelForms, g \in LabelGaps, n \in PlainNames :
               raw = l \o g \o n => cleaned = n
        /\ \A x \in Tokens \cup PlainNames :
               (raw \in {x \o <<" ">> \o x, x \o <<" ">> \o lower(x)}
                   /\ clean_name(script, x) = x)
               => cleaned = x
        /\ raw = StoreClosed => cleaned = <<"S", "t", "o", "r", "e">>
        /\ raw = NameDashStangt => cleaned = <<"N", "a", "m", "e">>
        /\ raw = ButikShoeWorld
               => cleaned = <<"S", "h", "o", "e", " ", "W", "o", "r", "l", "d">>
        /\ raw = ShopShop => cleaned = <<"S", "h", "o", "p">>

C8_Witness ==
    /\ pc = "cleaned"
    /\ script = "westfield_scraper"
    /\ raw = StoreClosed
    /\ cleaned = <<"S", "t", "o", "r", "e">>

IsHeaderToken(name) == lower(name) \in stop_headers

\* the first occurrence of every name, names compared case-insensitively,
\* header tokens left out
RECURSIVE FirstSeenCI(_, _)
FirstSeenCI(ns, keys) ==
    IF ns = <<>> THEN <<>>
    ELSE IF lower(Head(ns)) \in keys \/ IsHeaderToken(Head(ns))
         THEN FirstSeenCI(Tail(ns), keys)
         ELSE <<Head(ns)>> \o FirstSeenCI(Tail(ns), keys \cup {lower(Head(ns))})

(***************************************************************************)
(* C2: per-source deduplication.  The per-source list keeps the first-seen *)
(* order of the cleaned names, holds no two names that are equal           *)
(* case-insensitively, and holds no name case-insensitively equal to       *)
(* 'butik' or 'butiker' (['Zara', 'zara', 'H&M', 'Butik'] gives            *)
(* ['Zara', 'H&M']).                                                       *)
(***************************************************************************)
C2_PerSourceDedup ==
    pc = "deduped" =>
        /\ \A i, j \in 1..Len(per_unique) :
               i # j => lower(per_unique[i]) # lower(per_unique[j])
        /\ \A i \in 1..Len(per_unique) : ~IsHeaderToken(per_unique[i])
        /\ per_unique = FirstSeenCI(names, {})

AnchorReadable(a) == a.raises = "none"

CandidateReadable(el) == el.raises # "inner_text"

WithoutFailing(pg) ==
    [anchors |-> SelectSeq(pg.anchors, AnchorReadable),
     candidates |-> SelectSeq(pg.candidates, CandidateReadable)]

(***************************************************************************)
(* C6: a failure to read the text or the href of an element skips exactly  *)
(* that element: no exception leaves extract_store_links, and the names    *)
(* returned are those returned for the page without the failing elements.  *)
(***************************************************************************)
C6_FailuresSkipped ==
    /\ pc # "raised"
    /\ pc = "returned" =>
           names = extract_store_links(script, WithoutFailing(page)).names

\* a page with an unreadable anchor before an accepted one
C6_Witness ==
    /\ pc = "returned"
    /\ Len(page.anchors) = 2
    /\ page.anchors[1].raises = "get_attribute"
    /\ page.anchors[2].raises = "none"
    /\ names = <<Zara>>

IsCanonical(name) ==
    /\ name # <<>>
    /\ name[1] \notin Whitespace
    /\ name[Len(name)] \notin Whitespace
    /\ \A i \in 1..(Len(name) - 1) :
           ~(name[i] \in Whitespace /\ name[i + 1] \in Whitespace)

(***************************************************************************)
(* C7: every name of a per-source list is a canonical name: not empty, no  *)
(* whitespace at either end, no two whitespace characters in a row.        *)
(***************************************************************************)
C7_CanonicalNames ==
    pc = "deduped" => \A i \in 1..Len(per_unique) : IsCanonical(per_unique[i])

\* some anchor passes the candidate filter
AnyAccepted(pg) ==
    \E i \in 1..Len(pg.anchors) :
        LET r == read_anchor(pg.anchors[i])
        IN  r.status = "ok" /\ is_store_like(r.text, r.href)

\* some anchor passes the candidate filter and its text cleans to a name
AnyNamed(sc, pg) ==
    \E i \in 1..Len(pg.anchors) :
        LET r == read_anchor(pg.anchors[i])
        IN  /\ r.status = "ok"
            /\ is_store_like(r.text, r.href)
            /\ clean_name(sc, r.text) # <<>>

\* C9: whenever an anchor passes the candidate filter the
\* fallback scan is not executed and no class-selected element contributes
C9_FallbackOnlyWithoutCandidates ==
    AnyAccepted(page) =>
        /\ ~fallback_ran
        /\ pc \in {"returned", "deduped"} =>
               names = primary_pass(script, page).names

\* C9 amended: whenever an anchor passes the candidate filter and its text
\* cleans to a non-empty name, the fallback scan is not executed and no
\* class-selected element contributes a name
C9_FallbackOnlyWithoutNames ==
    AnyNamed(script, page) =>
        /\ ~fallback_ran
        /\ pc \in {"returned", "deduped"} =>
               names = primary_pass(script, page).names

\* an accepted anchor with a name, on a page that has a class-selected
\* element the fallback would have taken a name from
C9_Witness ==
    /\ pc = "returned"
    /\ AnyNamed(script, page)
    /\ page.candidates = <<[text |-> <<"N", "i", "k", "e">>, href |-> NoneValue,
                            raises |-> "none"]>>
    /\ ~fallback_ran
    /\ names = <<Zara>>

NameKey(name) == lower(strip(name))

\* the index of the first scanned row with the key
FirstScanned(key) ==
    SetMin({k \in 1..Len(merged_rows) : NameKey(merged_rows[k][2]) = key})

ScannedStores == [k \in 1..Len(merged_rows) |-> merged_rows[k][2]]

C3_Example ==
    /\ ScannedStores = <<Zara, <<"C", "O", "S">>, <<"z", "a", "r", "a">>,
                         <<"N", "i", "k", "e">> >>
    /\ merged_rows[1][1] = merged_rows[2][1]
    /\ merged_rows[3][1] = merged_rows[4][1]

(***************************************************************************)
(* C3: the unique view.  The export scans the per-source lists file by     *)
(* file and each list in order; the unique view holds exactly one entry    *)
(* per distinct name under the case-insensitive, trimmed key; the entry is *)
(* the first occurrence in the scan, with the source it first appeared in; *)
(* the entries are in first-occurrence order; every non-blank scanned name *)
(* is represented; and ['Zara', 'COS'] of A followed by ['zara', 'Nike']   *)
(* of B gives [('Zara', A), ('COS', A), ('Nike', B)].                      *)
(***************************************************************************)
C3_UniqueView ==
    pc = "exported" =>
        /\ \A n \in DOMAIN files : \A i \in 1..Len(files[n]) :
               \E k \in 1..Len(merged_rows) : merged_rows[k][2] = files[n][i]
        /\ \A i, j \in 1..Len(dedup) :
               i # j => NameKey(dedup[i][1]) # NameKey(dedup[j][1])
        /\ \A i \in 1..Len(dedup) :
               \E k \in 1..Len(merged_rows) :
                   /\ k = FirstScanned(NameKey(dedup[i][1]))
                   /\ merged_rows[k] = <<dedup[i][2], dedup[i][1]>>
        /\ \A i, j \in 1..Len(dedup) :
               i < j => FirstScanned(NameKey(dedup[i][1]))
                            < FirstScanned(NameKey(dedup[j][1]))
        /\ \A k \in 1..Len(merged_rows) :
               NameKey(merged_rows[k][2]) # <<>>
                   => \E i \in 1..Len(dedup) :
                          NameKey(dedup[i][1]) = NameKey(merged_rows[k][2])
        /\ C3_Example =>
               dedup = << <<Zara, merged_rows[1][1]>>,
                          <<<<"C", "O", "S">>, merged_rows[1][1]>>,
                          <<<<"N", "i", "k", "e">>, merged_rows[3][1]>> >>

C3_Witness ==
    /\ pc = "exported"
    /\ C3_Example
    /\ merged_rows[1][1] # merged_rows[3][1]
    /\ Len(dedup) = 3

GroupedHeader(title) == <<"=", "=", " ">> \o title \o <<" ", "=", "=">>

GroupedEntry(i, name) == <<DecimalDigits[i + 1], ".", " ">> \o name

GroupedBlock(src) ==
    <<GroupedHeader(src.title)>>
        \o [i \in 1..Len(src.names) |-> GroupedEntry(i, src.names[i])]

RECURSIVE GroupedLines(_)
GroupedLines(srcs) ==
    IF srcs = <<>> THEN <<>>
    ELSE GroupedBlock(Head(srcs)) \o GroupedLines(Tail(srcs))

(***************************************************************************)
(* C4: the grouped view.  The display lines are, per source in processing  *)
(* order, the header '== {title} ==' followed by the source's deduplicated *)
(* names as '{index}. {name}' with the indices 1..n in list order; the     *)
(* numbering restarts at 1 for every source and a name that also appears   *)
(* in another source keeps its line.  The lines are what the scraper       *)
(* writes and what the export shows.                                       *)
(***************************************************************************)
C4_GroupedView ==
    /\ Len(sources) <= Len(URLS)
    /\ \A k \in 1..Len(sources) : sources[k].url = URLS[k]
    /\ merged_display = GroupedLines(sources)
    /\ pc \in {"main_done", "exported"} =>
           /\ Len(sources) = Len(URLS)
           /\ merged_file.lines = merged_display
    /\ pc = "exported" => grouped = merged_display

\* two sources that both list 'Nike'
C4_Witness ==
    /\ pc = "main_done"
    /\ Len(sources) = 2
    /\ sources[1].names = << <<"z", "a", "r", "a">>, <<"N", "i", "k", "e">> >>
    /\ sources[2].names = << <<"N", "i", "k", "e">> >>
    /\ Len(merged_display) = 5
    /\ merged_display[3] = <<"2", ".", " ", "N", "i", "k", "e">>
    /\ merged_display[5] = <<"1", ".", " ", "N", "i", "k", "e">>

Without(s, k) == [i \in 1..(Len(s) - 1) |-> IF i < k THEN s[i] ELSE s[i + 1]]

InsertAt(s, pos, x) == SubSeq(s, 1, pos - 1) \o <<x>> \o SubSeq(s, pos, Len(s))

\* the output of the scraper for the sources srcs, from an empty directory
RECURSIVE Replay(_, _)
Replay(st, srcs) ==
    IF srcs = <<>> THEN st
    ELSE Replay(record_source(st, Head(srcs).url, Head(srcs).title,
                              Head(srcs).names),
                Tail(srcs))

ReplayWithout(k) ==
    Replay([files |-> <<>>, merged_display |-> <<>>, all_names |-> <<>>],
           Without(sources, k))

\* the unique view the export derives from the files fs
UniqueViewOf(fs) ==
    dedup_rows(read_files(fs, sorted({n \in DOMAIN fs : glob_match(n)})), {})

\* the number of display lines of the sources before the k-th
RECURSIVE LinesBefore(_)
LinesBefore(k) ==
    IF k = 1 THEN 0 ELSE LinesBefore(k - 1) + 1 + Len(sources[k - 1].names)

\* no other source writes the file of the k-th source
OwnFile(k) ==
    \A j \in 1..Len(sources) :
        j # k => slugify(sources[j].url) # slugify(sources[k].url)

\* C5: a source that yields zero candidates (and whose output file no other
\* source writes) has an empty per-source list, no line at all in the
\* grouped view and no entry in the unique view, and the lines and entries
\* of the other sources are those of a run without the source
C5_EmptySourceContributesNothing ==
    pc = "exported" =>
        \A k \in 1..Len(sources) :
            (sources[k].found = <<>> /\ OwnFile(k)) =>
                /\ sources[k].names = <<>>
                /\ merged_display = ReplayWithout(k).merged_display
                /\ dedup = UniqueViewOf(ReplayWithout(k).files)

\* C5 amended: a source that yields zero candidates, and whose output file
\* no other source writes, has an empty per-source list, exactly its header
\* line in the grouped view and no entry in the unique view, and the lines
\* and entries of the other sources are those of a run without the source
C5_EmptySourceHeaderOnly ==
    pc = "exported" =>
        \A k \in 1..Len(sources) :
            (sources[k].found = <<>> /\ OwnFile(k)) =>
                /\ sources[k].names = <<>>
                /\ files[per_filename(slugify(sources[k].url))] = <<>>
                /\ merged_display =
                       InsertAt(ReplayWithout(k).merged_display,
                                LinesBefore(k) + 1,
                                GroupedHeader(sources[k].title))
                /\ \A i \in 1..Len(dedup) :
                       dedup[i][2] # slugify(sources[k].url)
                /\ dedup = UniqueViewOf(ReplayWithout(k).files)

\* an empty source configured before a source with names
C5_Witness ==
    /\ pc = "exported"
    /\ Len(sources) = 2
    /\ sources[1].found = <<>>
    /\ OwnFile(1)
    /\ sources[2].names # <<>>
    /\ merged_display[1] = GroupedHeader(sources[1].url.netloc)
    /\ Len(dedup) = 2

\* the (source, name) rows of the sources in configured order
RECURSIVE ConfiguredScan(_)
ConfiguredScan(srcs) ==
    IF srcs = <<>> THEN <<>>
    ELSE [i \in 1..Len(Head(srcs).names) |->
             <<slugify(Head(srcs).url), Head(srcs).names[i]>>]
             \o ConfiguredScan(Tail(srcs))

\* the first occurrence of every key in rows, as (name, source)
RECURSIVE FirstOccurrences(_, _)
FirstOccurrences(rows, keys) ==
    IF rows = <<>> THEN <<>>
    ELSE LET key == NameKey(rows[1][2])
         IN  IF key = <<>> \/ key \in keys
             THEN FirstOccurrences(Tail(rows), keys)
             ELSE << <<rows[1][2], rows[1][1]>> >>
                      \o FirstOccurrences(Tail(rows), keys \cup {key})

(***************************************************************************)
(* C10: the unique view scans the sources in the configured order: its     *)
(* entries are ordered by the order of URLS, then by first appearance      *)
(* within a source, and a name of two sources is attributed to the source  *)
(* configured earlier, however the output file names sort (stated for      *)
(* sources that each write an output file of their own).                   *)
(***************************************************************************)
C10_UniqueInConfiguredOrder ==
    (pc = "exported" /\ \A k \in 1..Len(sources) : OwnFile(k)) =>
        dedup = FirstOccurrences(ConfiguredScan(sources), {})

=============================================================================
